---------------------------- MODULE Spec2Model ----------------------------
(***************************************************************************)
(* Model of agent_mcp/core/intelligent_migration.py: the analysis chain    *)
(* (ProjectAnalysisChain) as operators, and one run of                     *)
(* IntelligentMigrationManager.run_intelligent_migration as a state        *)
(* machine over the task store.                                            *)
(*                                                                         *)
(* Conventions.  Python str is a TLA+ string (Len, SubSeq and \o act on   *)
(* it).  Python None / SQL NULL is the value None.  A Python list is a     *)
(* sequence, a dict that is iterated is a record [keys, val] that keeps    *)
(* the insertion order.  A column that holds JSON text is a record         *)
(* [enc, val]: enc says what the text is (a JSON array, text that does not *)
(* parse, NULL), val is the array it decodes to.  Timestamps and the       *)
(* emoji of the log and note texts are left out.                           *)
(***************************************************************************)
EXTENDS Naturals, Sequences, FiniteSets, TLC

None == "<None>"

(***************************************************************************)
(* Text: str.lower() and the `in` substring test.                          *)
(***************************************************************************)
UpperCase == "ABCDEFGHIJKLMNOPQRSTUVWXYZ"
LowerCase == "abcdefghijklmnopqrstuvwxyz"

LowerTable ==
    [c \in {SubSeq(UpperCase, i, i) : i \in 1..Len(UpperCase)} |->
        LET i == CHOOSE k \in 1..Len(UpperCase) : SubSeq(UpperCase, k, k) = c
        IN  SubSeq(LowerCase, i, i)]

LowerChar(c) == IF c \in DOMAIN LowerTable THEN LowerTable[c] ELSE c

RECURSIVE lower(_)
lower(s) ==
    IF Len(s) = 0 THEN ""
    ELSE LowerChar(SubSeq(s, 1, 1)) \o lower(SubSeq(s, 2, Len(s)))

\* keyword in text
Contains(text, keyword) ==
    \E i \in 1..(Len(text) + 1 - Len(keyword)) :
        SubSeq(text, i, i + Len(keyword) - 1) = keyword

\* any(keyword in text for keyword in keywords)
AnyKeyword(text, keywords) ==
    \E k \in 1..Len(keywords) : Contains(text, keywords[k])

(***************************************************************************)
(* Python dict with insertion order: d[k] = v and d.get(k).                *)
(***************************************************************************)
EmptyDict == [keys |-> <<>>, val |-> <<>>]

DictSet(d, k, v) ==
    IF k \in DOMAIN d.val
    THEN [keys |-> d.keys, val |-> [d.val EXCEPT ![k] = v]]
    ELSE [keys |-> Append(d.keys, k), val |-> d.val @@ (k :> v)]

DictGet(d, k) == IF k \in DOMAIN d.val THEN d.val[k] ELSE None

(***************************************************************************)
(* Stored JSON text: json.dumps and json.loads.                            *)
(***************************************************************************)
json_dumps(list) == [enc |-> "array", val |-> list]
JsonInvalid == [enc |-> "invalid", val |-> <<>>]
SqlNull == [enc |-> "null", val |-> <<>>]

\* json.loads raises on text that is no JSON (ValueError) and on None (TypeError)
json_loads(column) ==
    IF column.enc = "array"
    THEN [raised |-> FALSE, val |-> column.val]
    ELSE [raised |-> TRUE, val |-> <<>>]

(***************************************************************************)
(* Step 1: analyze_project_domain.                                         *)
(***************************************************************************)
\* f"{value}": None is written as the text None
FormatValue(value) == IF value = None THEN "None" ELSE value

\* lines 30-35: " ".join(f"{title} {description}".lower() for each task)
RECURSIVE combined_text(_)
combined_text(tasks) ==
    IF Len(tasks) = 0 THEN ""
    ELSE LET text == lower(FormatValue(tasks[1].title) \o " " \o FormatValue(tasks[1].description))
         IN  IF Len(tasks) = 1 THEN text
             ELSE text \o " " \o combined_text(Tail(tasks))

\* lines 38-45, in the order of the dict
domain_indicators ==
    << [domain |-> "web_development",
        keywords |-> << "website", "page", "ui", "frontend", "component", "react", "vue",
                        "angular", "html", "css", "javascript" >>],
       [domain |-> "backend_development",
        keywords |-> << "api", "server", "database", "auth", "authentication", "endpoint",
                        "service", "backend" >>],
       [domain |-> "mobile_development",
        keywords |-> << "mobile", "app", "ios", "android", "react native", "flutter",
                        "swift", "kotlin" >>],
       [domain |-> "data_science",
        keywords |-> << "data", "analytics", "ml", "machine learning", "model", "analysis",
                        "visualization" >>],
       [domain |-> "devops",
        keywords |-> << "deployment", "ci/cd", "docker", "kubernetes", "infrastructure",
                        "monitoring" >>],
       [domain |-> "business_application",
        keywords |-> << "dashboard", "crm", "quote", "customer", "business", "management",
                        "workflow" >>] >>

\* line 49: sum(1 for keyword in keywords if keyword in combined_text)
KeywordScore(keywords, text) ==
    Cardinality({k \in 1..Len(keywords) : Contains(text, keywords[k])})

\* lines 47-50: the scores of the first n domains
RECURSIVE DomainScores(_, _)
DomainScores(n, text) ==
    IF n = 0 THEN EmptyDict
    ELSE DictSet(DomainScores(n - 1, text), domain_indicators[n].domain,
                 KeywordScore(domain_indicators[n].keywords, text))

\* line 52: max(d, key=d.get), the first key in the dict's order among those
\* with the greatest value
MaxByKey_last(d) ==
    d.keys[CHOOSE i \in 1..Len(d.keys) :
               /\ \A j \in 1..Len(d.keys) : d.val[d.keys[j]] <= d.val[d.keys[i]]
               /\ \A j \in (i + 1)..Len(d.keys) : d.val[d.keys[j]] < d.val[d.keys[i]]]

MaxByKey(d) ==
    d.keys[CHOOSE i \in 1..Len(d.keys) :
               /\ \A j \in 1..Len(d.keys) : d.val[d.keys[j]] <= d.val[d.keys[i]]
               /\ \A j \in 1..(i - 1) : d.val[d.keys[j]] < d.val[d.keys[i]]]

analyze_project_domain(tasks) ==
    LET text == combined_text(tasks)
        domain_scores == DomainScores(Len(domain_indicators), text)
    IN  [primary_domain |-> MaxByKey(domain_scores),
         domain_scores |-> domain_scores,
         project_complexity |-> Len(tasks),
         has_ui_components |-> \E k \in 1..Len(tasks) : Contains(lower(tasks[k].title), "component"),
         has_backend_work |-> AnyKeyword(text, << "api", "database", "server" >>),
         has_business_logic |-> AnyKeyword(text, << "quote", "calculator", "business", "workflow" >>)]

(***************************************************************************)
(* Step 2: analyze_task_complexity_layers.                                 *)
(***************************************************************************)
infrastructure_keywords ==
    << "setup", "config", "install", "database", "schema", "auth", "authentication",
       "environment", "deployment", "infrastructure", "basic", "core setup" >>

core_functionality_keywords ==
    << "calculator", "algorithm", "logic", "processing", "computation", "smart",
       "intelligent", "analysis", "recommendation", "search", "filter" >>

user_interface_keywords ==
    << "ui", "interface", "component", "page", "form", "button", "modal",
       "styling", "design", "layout", "responsive", "user experience" >>

integration_keywords ==
    << "integration", "api", "service", "workflow", "coordination", "communication",
       "synchronization", "orchestration", "pipeline" >>

optimization_keywords ==
    << "optimization", "performance", "improve", "enhance", "polish", "refine",
       "testing", "quality", "monitoring", "analytics", "reporting" >>

LayerNames ==
    << "infrastructure_tasks", "core_functionality_tasks", "user_interface_tasks",
       "integration_tasks", "optimization_tasks", "unclassified_tasks" >>

\* the user interface test placed before the infrastructure test
LayerOf_uiFirst(task) ==
    LET task_text == lower(task.title) \o " " \o lower(task.description)
    IN  IF      AnyKeyword(task_text, user_interface_keywords)     THEN "user_interface_tasks"
        ELSE IF AnyKeyword(task_text, infrastructure_keywords)     THEN "infrastructure_tasks"
        ELSE IF AnyKeyword(task_text, core_functionality_keywords) THEN "core_functionality_tasks"
        ELSE IF AnyKeyword(task_text, integration_keywords)        THEN "integration_tasks"
        ELSE IF AnyKeyword(task_text, optimization_keywords)       THEN "optimization_tasks"
        ELSE "unclassified_tasks"

\* the if / elif chain of one loop iteration: the bucket one task is appended to
LayerOf(task) ==
    LET task_text == lower(task.title) \o " " \o lower(task.description)
    IN  IF      AnyKeyword(task_text, infrastructure_keywords)     THEN "infrastructure_tasks"
        ELSE IF AnyKeyword(task_text, core_functionality_keywords) THEN "core_functionality_tasks"
        ELSE IF AnyKeyword(task_text, user_interface_keywords)     THEN "user_interface_tasks"
        ELSE IF AnyKeyword(task_text, integration_keywords)        THEN "integration_tasks"
        ELSE IF AnyKeyword(task_text, optimization_keywords)       THEN "optimization_tasks"
        ELSE "unclassified_tasks"

analyze_task_complexity_layers(tasks) ==
    [layer \in {LayerNames[i] : i \in 1..Len(LayerNames)} |->
        SelectSeq(tasks, LAMBDA task : LayerOf(task) = layer)]

(***************************************************************************)
(* Step 3: analyze_task_dependencies and _should_depend_on.                *)
(***************************************************************************)
dependency_patterns ==
    << <<"component", "api">>, <<"form", "service">>, <<"page", "database">>,
       <<"test", "implement">>, <<"testing", "feature">>,
       <<"advanced", "basic">>, <<"enhancement", "core">>,
       <<"optimization", "implementation">>,
       <<"integration", "component">>, <<"workflow", "service">> >>

\* the two keywords of a pattern taken the other way round
should_depend_on_reversed(task_title, potential_dependency_title) ==
    \E p \in 1..Len(dependency_patterns) :
        /\ Contains(task_title, dependency_patterns[p][2])
        /\ Contains(potential_dependency_title, dependency_patterns[p][1])

should_depend_on(task_title, potential_dependency_title) ==
    \E p \in 1..Len(dependency_patterns) :
        /\ Contains(task_title, dependency_patterns[p][1])
        /\ Contains(potential_dependency_title, dependency_patterns[p][2])

\* `except: pass`: the text that does not parse is recorded as it is
ExplicitDependencies_rawText(task) ==
    IF task.depends_on_tasks.enc = "array" THEN task.depends_on_tasks.val
    ELSE IF task.depends_on_tasks.enc = "null" THEN None
    ELSE << "not json" >>

\* the explicit pass for one task: a stored string is parsed, a parse error
\* gives []; a value that is no string (NULL) is recorded as it is
ExplicitDependencies(task) ==
    IF task.depends_on_tasks.enc = "null" THEN None
    ELSE LET parsed == json_loads(task.depends_on_tasks)
         IN  IF parsed.raised THEN <<>> ELSE parsed.val

\* the inner loop of the implicit pass for tasks[i], from tasks[j] on
RECURSIVE ImplicitOf(_, _, _)
ImplicitOf(tasks, i, j) ==
    IF j > Len(tasks) THEN <<>>
    ELSE LET rest == ImplicitOf(tasks, i, j + 1)
         IN  IF tasks[i].task_id = tasks[j].task_id THEN rest
             ELSE IF should_depend_on(lower(tasks[i].title), lower(tasks[j].title))
                  THEN << [dependent |-> tasks[i].task_id,
                           dependency |-> tasks[j].task_id] >> \o rest
                  ELSE rest

RECURSIVE ImplicitFrom(_, _)
ImplicitFrom(tasks, i) ==
    IF i > Len(tasks) THEN <<>>
    ELSE ImplicitOf(tasks, i, 1) \o ImplicitFrom(tasks, i + 1)

RECURSIVE ExplicitFrom(_, _, _)
ExplicitFrom(tasks, i, d) ==
    IF i > Len(tasks) THEN d
    ELSE ExplicitFrom(tasks, i + 1,
                      DictSet(d, tasks[i].task_id, ExplicitDependencies(tasks[i])))

analyze_task_dependencies(tasks) ==
    [explicit_dependencies |-> ExplicitFrom(tasks, 1, EmptyDict),
     implicit_dependencies |-> ImplicitFrom(tasks, 1)]

(***************************************************************************)
(* Step 4: determine_optimal_phases.                                       *)
(***************************************************************************)
IntelligenceThreshold == 3
CoordinationThreshold == 5
OptimizationThreshold == 2

ui_title_keywords == << "page", "ui", "interface", "component" >>

\* only completed unclassified tasks are appended to foundation_tasks
ToFoundation_completedOnly(task) == task.status = "completed"

\* the branch of the loop over the unclassified tasks that appends to
\* foundation_tasks (the first and the last branch)
ToFoundation(task) ==
    \/ task.status = "completed"
    \/ ~AnyKeyword(lower(task.title), ui_title_keywords)

ToCoordination(task) == ~ToFoundation(task)

TaskIdsOf(tasks) == [i \in 1..Len(tasks) |-> tasks[i].task_id]

\* for task in tasks: phase_assignments[task['task_id']] = phase_id
RECURSIVE AssignAll(_, _, _)
AssignAll(assignments, tasks, phase_id) ==
    IF Len(tasks) = 0 THEN assignments
    ELSE AssignAll(DictSet(assignments, tasks[1].task_id, phase_id),
                   SubSeq(tasks, 2, Len(tasks)), phase_id)

Justification(text, tasks) == text \o " (" \o ToString(Len(tasks)) \o " tasks)"

\* one entry of recommended_phases; 'tasks' holds the ids of the task dicts
PhaseEntry(phase_id, name, tasks, justification) ==
    [phase_id |-> phase_id, name |-> name, tasks |-> TaskIdsOf(tasks),
     justification |-> justification]

\* the threshold read as "more than"
CreateIntelligence_strict(intelligence_tasks) ==
    Len(intelligence_tasks) > IntelligenceThreshold

\* if intelligence_tasks and len(intelligence_tasks) >= 3:
CreateIntelligence(intelligence_tasks) ==
    Len(intelligence_tasks) > 0 /\ Len(intelligence_tasks) >= IntelligenceThreshold

\* if coordination_tasks and len(coordination_tasks) >= 5:
CreateCoordination(coordination_tasks) ==
    Len(coordination_tasks) > 0 /\ Len(coordination_tasks) >= CoordinationThreshold

\* if optimization_tasks and len(optimization_tasks) >= 2:
CreateOptimization(optimization_tasks) ==
    Len(optimization_tasks) > 0 /\ Len(optimization_tasks) >= OptimizationThreshold

\* target_phase = 'phase_2_intelligence' if intelligence_tasks else 'phase_1_foundation'
CoordinationTarget(intelligence_tasks) ==
    IF Len(intelligence_tasks) > 0 THEN "phase_2_intelligence" ELSE "phase_1_foundation"

\* available_phases[0] taken for available_phases[-1]
OptimizationTarget_first(recommended_phases) ==
    IF Len(recommended_phases) > 0
    THEN recommended_phases[1].phase_id
    ELSE "phase_1_foundation"

\* available_phases[-1] if available_phases else 'phase_1_foundation'
OptimizationTarget(recommended_phases) ==
    IF Len(recommended_phases) > 0
    THEN recommended_phases[Len(recommended_phases)].phase_id
    ELSE "phase_1_foundation"

determine_optimal_phases(complexity_analysis) ==
    LET unclassified == complexity_analysis.unclassified_tasks
        foundation_tasks ==
            complexity_analysis.infrastructure_tasks \o SelectSeq(unclassified, ToFoundation)
        intelligence_tasks == complexity_analysis.core_functionality_tasks
        coordination_tasks ==
            (complexity_analysis.user_interface_tasks \o complexity_analysis.integration_tasks)
                \o SelectSeq(unclassified, ToCoordination)
        optimization_tasks == complexity_analysis.optimization_tasks
        \* if foundation_tasks:
        foundation == Len(foundation_tasks) > 0
        intelligence == CreateIntelligence(intelligence_tasks)
        coordination == CreateCoordination(coordination_tasks)
        optimization == CreateOptimization(optimization_tasks)
        \* the list object foundation_tasks is the 'tasks' of the Foundation
        \* entry: foundation_tasks.extend(intelligence_tasks) shows in it
        foundation_final ==
            IF intelligence THEN foundation_tasks ELSE foundation_tasks \o intelligence_tasks
        phases1 ==
            IF foundation
            THEN << PhaseEntry("phase_1_foundation", "Phase 1: Foundation", foundation_final,
                        Justification("Core infrastructure and setup tasks", foundation_tasks)) >>
            ELSE <<>>
        assign1 ==
            IF foundation
            THEN AssignAll(EmptyDict, foundation_tasks, "phase_1_foundation")
            ELSE EmptyDict
        phases2 ==
            IF intelligence
            THEN Append(phases1,
                     PhaseEntry("phase_2_intelligence", "Phase 2: Intelligence", intelligence_tasks,
                         Justification("Core business logic and intelligent features",
                                       intelligence_tasks)))
            ELSE phases1
        assign2 ==
            AssignAll(assign1, intelligence_tasks,
                      IF intelligence THEN "phase_2_intelligence" ELSE "phase_1_foundation")
        phases3 ==
            IF coordination
            THEN Append(phases2,
                     PhaseEntry("phase_3_coordination", "Phase 3: Coordination", coordination_tasks,
                         Justification("User interface and system integration",
                                       coordination_tasks)))
            ELSE phases2
        coordination_target == CoordinationTarget(intelligence_tasks)
        assign3 ==
            AssignAll(assign2, coordination_tasks,
                      IF coordination THEN "phase_3_coordination" ELSE coordination_target)
        phases4 ==
            IF optimization
            THEN Append(phases3,
                     PhaseEntry("phase_4_optimization", "Phase 4: Optimization", optimization_tasks,
                         Justification("Performance, testing, and production readiness",
                                       optimization_tasks)))
            ELSE phases3
        optimization_target == OptimizationTarget(phases3)
        assign4 ==
            AssignAll(assign3, optimization_tasks,
                      IF optimization THEN "phase_4_optimization" ELSE optimization_target)
    IN  [recommended_phases |-> phases4, phase_assignments |-> assign4]

(***************************************************************************)
(* The task store: the rows of table tasks in created_at order (a new row  *)
(* is the latest), and the rows of table project_context.                  *)
(***************************************************************************)
\* task_id LIKE 'phase_%': "phase" in any case, one more character, anything
LikePhase(task_id) ==
    /\ Len(task_id) >= 6
    /\ lower(SubSeq(task_id, 1, 5)) = "phase"

\* SELECT ... FROM tasks WHERE task_id = ?, fetchone(): the first row, or None
RowIndexes(table, task_id) == {k \in 1..Len(table) : table[k].task_id = task_id}

HasRow(table, task_id) == RowIndexes(table, task_id) # {}

FetchOne(table, task_id) ==
    table[CHOOSE k \in RowIndexes(table, task_id) :
              \A m \in RowIndexes(table, task_id) : k <= m]

(***************************************************************************)
(* _needs_migration, lines 406-414: the two counts and the answer.         *)
(***************************************************************************)
needs_migration_ignores_phases(table) ==
    LET total_tasks == Len(table)
    IN  total_tasks > 0

needs_migration(table) ==
    LET phase_count == Cardinality({k \in 1..Len(table) : LikePhase(table[k].task_id)})
        total_tasks == Len(table)
    IN  phase_count = 0 /\ total_tasks > 0

(***************************************************************************)
(* _create_phase: the row it inserts, and its effect on the table.         *)
(***************************************************************************)
phase_definitions(phase_id) ==
    CASE phase_id = "phase_1_foundation" ->
             "Core system architecture, database, authentication, and basic APIs"
      [] phase_id = "phase_2_intelligence" ->
             "RAG system, embeddings, context management, and AI integration"
      [] phase_id = "phase_3_coordination" ->
             "Multi-agent workflows, task orchestration, and system integration"
      [] phase_id = "phase_4_optimization" ->
             "Performance tuning, scaling, monitoring, and production readiness"
      [] OTHER -> "Intelligent phase assignment"

phase_data(phase_info) ==
    [task_id |-> phase_info.phase_id,
     title |-> phase_info.name,
     description |-> phase_definitions(phase_info.phase_id)
                         \o " AI Analysis: " \o phase_info.justification,
     status |-> "pending",
     priority |-> "high",
     parent_task |-> None,
     child_tasks |-> json_dumps(<<>>),
     depends_on_tasks |-> json_dumps(<<>>),
     notes |-> json_dumps(<< [author |-> "intelligent_migration",
                              content |-> "Intelligent migration: Phase created through AI analysis. "
                                  \o phase_info.justification \o ". "
                                  \o ToString(Len(phase_info.tasks))
                                  \o " tasks assigned based on content analysis and dependency reasoning."] >>)]

create_phase_unchecked(table, phase_info) ==
    Append(table, phase_data(phase_info))

create_phase(table, phase_info) ==
    IF HasRow(table, phase_info.phase_id) THEN table
    ELSE Append(table, phase_data(phase_info))

(***************************************************************************)
(* _migrate_task_to_phase.                                                 *)
(***************************************************************************)
\* lines 533-550: the new parent and the migration type
NewParent_flatten(current_parent, phase_id, phase_assignments) ==
    [new_parent |-> phase_id, migration_type |-> "root_to_phase"]

NewParent(current_parent, phase_id, phase_assignments) ==
    IF current_parent = None
    THEN [new_parent |-> phase_id, migration_type |-> "root_to_phase"]
    ELSE LET parent_phase == DictGet(phase_assignments, current_parent)
         IN  IF parent_phase = phase_id
             THEN [new_parent |-> current_parent, migration_type |-> "hierarchy_preserved"]
             ELSE [new_parent |-> phase_id, migration_type |-> "orphan_to_phase"]

\* lines 555-568: the note
migration_note(phase_id, migration_type, structure) ==
    LET found == {k \in 1..Len(structure.recommended_phases) :
                      structure.recommended_phases[k].phase_id = phase_id}
        justification ==
            IF found = {} THEN "Intelligent analysis"
            ELSE structure.recommended_phases[CHOOSE k \in found : \A m \in found : k <= m].justification
    IN  [author |-> "intelligent_migration",
         content |-> "Intelligent migration: Assigned to " \o phase_id
                         \o " based on AI analysis. " \o justification
                         \o ". Migration type: " \o migration_type \o "."]

\* line 569: current_notes.append(migration_note)
AddNote_replace(current_notes, note) == << note >>

AddNote(current_notes, note) == Append(current_notes, note)

\* lines 572-576: UPDATE tasks SET parent_task = ?, notes = ? WHERE task_id = ?
UpdateParentNotes_resetsStatus(table, task_id, new_parent, notes) ==
    [k \in 1..Len(table) |->
        IF table[k].task_id = task_id
        THEN [table[k] EXCEPT !.parent_task = new_parent, !.notes = notes,
                              !.status = "pending"]
        ELSE table[k]]

UpdateParentNotes(table, task_id, new_parent, notes) ==
    [k \in 1..Len(table) |->
        IF table[k].task_id = task_id
        THEN [table[k] EXCEPT !.parent_task = new_parent, !.notes = notes]
        ELSE table[k]]

\* the whole function without a store failure: the table afterwards and the
\* value returned
\* lines 529-578: the row was found
migrate_fetched_task(table, task_id, phase_id, structure) ==
    LET task == FetchOne(table, task_id)
        plan == NewParent(task.parent_task, phase_id, structure.phase_assignments)
        current_notes == json_loads(task.notes)
    IN  IF current_notes.raised
        THEN [table |-> table, migrated |-> FALSE, raised |-> TRUE]
        ELSE [table |-> UpdateParentNotes(table, task_id, plan.new_parent,
                            json_dumps(AddNote(current_notes.val,
                                migration_note(phase_id, plan.migration_type, structure)))),
              migrated |-> TRUE, raised |-> FALSE]

\* without `if not task: return False`: dict(None) raises
migrate_task_to_phase_unchecked(table, task_id, phase_id, structure) ==
    IF ~HasRow(table, task_id) THEN [table |-> table, migrated |-> FALSE, raised |-> TRUE]
    ELSE migrate_fetched_task(table, task_id, phase_id, structure)

migrate_task_to_phase(table, task_id, phase_id, structure) ==
    IF ~HasRow(table, task_id) THEN [table |-> table, migrated |-> FALSE, raised |-> FALSE]
    ELSE migrate_fetched_task(table, task_id, phase_id, structure)

(***************************************************************************)
(* _fix_dependencies: one iteration of the loop over the inferred edges.   *)
(***************************************************************************)
\* json.loads(result['depends_on_tasks'] or '[]')
LoadDependencies(column) ==
    IF column.enc = "null" THEN [raised |-> FALSE, val |-> <<>>] ELSE json_loads(column)

\* the existence check left out
InList_never(x, list) == FALSE

InList(x, list) == \E k \in 1..Len(list) : list[k] = x

UpdateDependencies(table, task_id, depends_on) ==
    [k \in 1..Len(table) |->
        IF table[k].task_id = task_id
        THEN [table[k] EXCEPT !.depends_on_tasks = depends_on]
        ELSE table[k]]

fix_dependency(table, implicit_dep) ==
    IF ~HasRow(table, implicit_dep.dependent)
    THEN [raised |-> FALSE, table |-> table, fixed |-> FALSE]
    ELSE LET current_deps == LoadDependencies(FetchOne(table, implicit_dep.dependent).depends_on_tasks)
         IN  IF current_deps.raised
             THEN [raised |-> TRUE, table |-> table, fixed |-> FALSE]
             ELSE IF InList(implicit_dep.dependency, current_deps.val)
                  THEN [raised |-> FALSE, table |-> table, fixed |-> FALSE]
                  ELSE [raised |-> FALSE,
                        table |-> UpdateDependencies(table, implicit_dep.dependent,
                                      json_dumps(Append(current_deps.val, implicit_dep.dependency))),
                        fixed |-> TRUE]

(***************************************************************************)
(* _update_migration_status: INSERT OR REPLACE INTO project_context.       *)
(***************************************************************************)
migration_context_key == "agent_mcp_intelligent_migration"

migration_record(total_tasks, structure) ==
    [intelligent_migration_completed |-> TRUE,
     total_tasks_analyzed |-> total_tasks,
     phases_created |-> Len(structure.recommended_phases)]

\* the store interface's upsert: a row conflicts with a new one when it is
\* stored under the same key
KeyConflict(row, key) == row.context_key = key

insert_or_replace(context, key, value) ==
    SelectSeq(context, LAMBDA row : ~KeyConflict(row, key))
        \o << [context_key |-> key, value |-> value, updated_by |-> "intelligent_migration"] >>

(***************************************************************************)
(* Bounds and the stores a run starts from.                                *)
(***************************************************************************)
\* rows in the store before the first run
MaxTasks == 3
\* calls of run_intelligent_migration
MaxRuns == 2
\* departures from the plain case: a stored field that is not the plain
\* row's, an old phase-like row, or a store operation that raises
MaxDeviations == 1

TaskTemplates ==
    << [title |-> "Setup database", description |-> "", status |-> "completed"],
       [title |-> "Implement search", description |-> "Ranking", status |-> "pending"],
       [title |-> "Testing", description |-> "", status |-> "pending"] >>

TaskIdAt(k) == "t" \o ToString(k)

UserNote(k) == [author |-> "admin", content |-> "note " \o ToString(k)]

PlainRow(k, template) ==
    [task_id |-> TaskIdAt(k),
     title |-> template.title,
     description |-> template.description,
     status |-> template.status,
     priority |-> "medium",
     parent_task |-> None,
     child_tasks |-> json_dumps(<<>>),
     depends_on_tasks |-> json_dumps(<<>>),
     notes |-> json_dumps([m \in 1..(k - 1) |-> UserNote(m)])]

RowDeviations == { "parent_first", "parent_missing", "notes_invalid", "notes_null",
                   "depends_invalid", "depends_null", "depends_first", "description_null" }
StoreDeviations == { "legacy_phase", "legacy_like" }

DeviationField(kind) ==
    CASE kind \in {"parent_first", "parent_missing"} -> "parent_task"
      [] kind \in {"notes_invalid", "notes_null"} -> "notes"
      [] kind \in {"depends_invalid", "depends_null", "depends_first"} -> "depends_on_tasks"
      [] kind = "description_null" -> "description"
      [] OTHER -> "legacy"

\* a deviation is <<row, kind>>; row 0 is the store itself
DeviationsOf(n) ==
    ({<<k, kind>> : k \in 1..n, kind \in RowDeviations}
        \ {<<1, "parent_first">>, <<1, "depends_first">>})
    \cup {<<0, kind>> : kind \in StoreDeviations}

Compatible(devs) ==
    \A d1 \in devs, d2 \in devs :
        (d1 # d2) => (d1[1] # d2[1] \/ DeviationField(d1[2]) # DeviationField(d2[2]))

RECURSIVE DeviationSets(_, _)
DeviationSets(all, m) ==
    IF m = 0 THEN {{}}
    ELSE LET smaller == DeviationSets(all, m - 1)
         IN  smaller \cup {t \cup {d} : t \in smaller, d \in all}

DeviatedRow(row, k, devs) ==
    [row EXCEPT
        !.description = IF <<k, "description_null">> \in devs THEN None ELSE @,
        !.parent_task = IF <<k, "parent_first">> \in devs THEN TaskIdAt(1)
                        ELSE IF <<k, "parent_missing">> \in devs THEN "gone"
                        ELSE @,
        !.notes = IF <<k, "notes_invalid">> \in devs THEN JsonInvalid
                  ELSE IF <<k, "notes_null">> \in devs THEN SqlNull
                  ELSE @,
        !.depends_on_tasks = IF <<k, "depends_invalid">> \in devs THEN JsonInvalid
                             ELSE IF <<k, "depends_null">> \in devs THEN SqlNull
                             ELSE IF <<k, "depends_first">> \in devs
                                  THEN json_dumps(<< TaskIdAt(1) >>)
                             ELSE @]

LegacyRows(devs) ==
    (IF <<0, "legacy_phase">> \in devs
     THEN << [PlainRow(1, TaskTemplates[1]) EXCEPT !.task_id = "phase_1_foundation",
                                                   !.title = "Phase 1: Foundation"] >>
     ELSE <<>>)
    \o (IF <<0, "legacy_like">> \in devs
        THEN << [PlainRow(1, TaskTemplates[1]) EXCEPT !.task_id = "PhaseX"] >>
        ELSE <<>>)

\* child_tasks lists the rows whose parent_task is the row
WithChildren(table) ==
    [k \in 1..Len(table) |->
        [table[k] EXCEPT !.child_tasks =
            json_dumps(TaskIdsOf(SelectSeq(table,
                LAMBDA row : row.parent_task = table[k].task_id)))]]

StoreOf(templates, devs) ==
    WithChildren(LegacyRows(devs)
        \o [k \in 1..Len(templates) |-> DeviatedRow(PlainRow(k, templates[k]), k, devs)])

(***************************************************************************)
(* State.                                                                  *)
(*   store, project_context  the committed tables                          *)
(*   tx                      the tasks table as the open connection sees   *)
(*                           it (its uncommitted writes included)          *)
(*   pc                      where the run is                              *)
(*   all_tasks .. fixed_count  the run's local variables                   *)
(*   results                 the values the runs so far returned           *)
(*   deviations              deviations used up (MaxDeviations)            *)
(*   store0 .. run_stores    history: the tables when the run began, the   *)
(*                           steps it entered, the steps that raised, the  *)
(*                           tasks table as first committed, the tasks     *)
(*                           table at the end of each run                  *)
(*   complexity_analysis, plan, plan_pc  the planner taken alone           *)
(*   analysis_tasks, dependency_analysis  the analysis steps taken alone   *)
(*   domain_analysis         the domain profile of step 1; in a run it     *)
(*                           goes to the log and the audit value only      *)
(***************************************************************************)
VARIABLES store, project_context, tx, pc,
          all_tasks, phase_structure, implicit_dependencies, idx,
          migrated_count, fixed_count,
          results, deviations,
          store0, context0, steps, raised, committed, run_stores,
          complexity_analysis, plan, plan_pc,
          analysis_tasks, dependency_analysis, domain_analysis

tables == <<store, project_context>>
locals == <<all_tasks, phase_structure, implicit_dependencies, idx, migrated_count, fixed_count>>
history == <<store0, context0, steps, raised, committed, run_stores>>
planner == <<complexity_analysis, plan, plan_pc, analysis_tasks, dependency_analysis,
             domain_analysis>>
vars == <<tables, tx, pc, locals, results, deviations, history, planner>>

EmptyStructure == [recommended_phases |-> <<>>, phase_assignments |-> EmptyDict]

EmptyAnalysis == [layer \in {LayerNames[i] : i \in 1..Len(LayerNames)} |-> <<>>]

EmptyDependencyAnalysis == [explicit_dependencies |-> EmptyDict, implicit_dependencies |-> <<>>]

\* domain_analysis before step 1 has run
NoDomainAnalysis == [primary_domain |-> None]

\* a fresh connection reads the committed table; what it writes is seen by
\* others once it commits
get_db_connection(table) == table

\* a store operation raises (sqlite3.Error)
StoreFailure(step) ==
    /\ deviations < MaxDeviations
    /\ deviations' = deviations + 1
    /\ raised' = raised \cup {step}

NoFailure == UNCHANGED <<deviations, raised>>

\* run_intelligent_migration returns value
Return(value) ==
    /\ pc' = "done"
    /\ results' = Append(results, value)
    /\ run_stores' = Append(run_stores, store)

Continue(next) ==
    /\ pc' = next
    /\ UNCHANGED <<results, run_stores>>

Init ==
    /\ \E n \in 0..MaxTasks :
         \E templates \in [1..n -> {TaskTemplates[k] : k \in 1..Len(TaskTemplates)}] :
           \E devs \in DeviationSets(DeviationsOf(n), MaxDeviations) :
              /\ Compatible(devs)
              /\ store = StoreOf(templates, devs)
              /\ deviations = Cardinality(devs)
    /\ project_context = <<>>
    /\ tx = <<>>
    /\ pc = "needs_migration"
    /\ all_tasks = <<>>
    /\ phase_structure = EmptyStructure
    /\ implicit_dependencies = <<>>
    /\ idx = 0
    /\ migrated_count = 0
    /\ fixed_count = 0
    /\ results = <<>>
    /\ store0 = store
    /\ context0 = project_context
    /\ steps = {}
    /\ raised = {}
    /\ committed = <<>>
    /\ run_stores = <<>>
    /\ complexity_analysis = EmptyAnalysis
    /\ plan = EmptyStructure
    /\ plan_pc = "off"
    /\ analysis_tasks = <<>>
    /\ dependency_analysis = EmptyDependencyAnalysis
    /\ domain_analysis = NoDomainAnalysis

(***************************************************************************)
(* run_intelligent_migration, step by step.                                *)
(***************************************************************************)
\* line 328 with _needs_migration: an exception in it is answered False
NeedsMigration ==
    /\ pc = "needs_migration"
    /\ steps' = steps \cup {"needs_migration"}
    /\ \/ /\ NoFailure
          /\ IF needs_migration(store) THEN Continue("load_all_tasks") ELSE Return(TRUE)
       \/ /\ StoreFailure("needs_migration")
          /\ Return(TRUE)
    /\ UNCHANGED <<tables, tx, locals, store0, context0, committed, planner>>

\* lines 333-337 with _load_all_tasks: an exception in it is answered []
LoadAllTasks ==
    /\ pc = "load_all_tasks"
    /\ steps' = steps \cup {"load_all_tasks"}
    /\ \/ /\ NoFailure
          /\ all_tasks' = store
          /\ IF Len(store) = 0 THEN Return(TRUE) ELSE Continue("analyze")
       \/ /\ StoreFailure("load_all_tasks")
          /\ all_tasks' = <<>>
          /\ Return(TRUE)
    /\ UNCHANGED <<tables, tx, phase_structure, implicit_dependencies, idx,
                   migrated_count, fixed_count, store0, context0, committed, planner>>

\* task.get('title', '').lower() and task.get('description', '').lower()
\* (lines 58, 76, 77) raise AttributeError when the column is NULL
AnalysisRaises(tasks) ==
    \E k \in 1..Len(tasks) : tasks[k].title = None \/ tasks[k].description = None

\* lines 343-362: the analysis chain; what it raises is caught at lines
\* 396-398 and the run returns False
Analyze ==
    /\ pc = "analyze"
    /\ steps' = steps \cup {"analyze"}
    /\ IF AnalysisRaises(all_tasks)
       THEN /\ raised' = raised \cup {"analyze"}
            /\ Return(FALSE)
            /\ UNCHANGED <<phase_structure, implicit_dependencies>>
       ELSE /\ phase_structure' =
                   determine_optimal_phases(analyze_task_complexity_layers(all_tasks))
            /\ implicit_dependencies' =
                   analyze_task_dependencies(all_tasks).implicit_dependencies
            /\ Continue("execute_migration")
            /\ UNCHANGED raised
    /\ UNCHANGED deviations
    /\ UNCHANGED <<tables, tx, all_tasks, idx, migrated_count, fixed_count,
                   store0, context0, committed, planner>>

ExecuteMigrationExcept_commits ==
    /\ store' = IF pc = "execute_migration" THEN store ELSE tx
    /\ tx' = <<>>
    /\ Return(FALSE)
    /\ UNCHANGED <<project_context, committed>>

ExecuteMigrationExcept_audits ==
    /\ tx' = <<>>
    /\ Continue("update_migration_status")
    /\ UNCHANGED <<tables, committed>>

\* the except of _execute_migration (lines 459-461) and lines 392-394: the
\* connection is dropped uncommitted, the run returns False
ExecuteMigrationExcept ==
    /\ tx' = <<>>
    /\ Return(FALSE)
    /\ UNCHANGED <<tables, committed>>

AfterPhases ==
    IF Len(phase_structure.phase_assignments.keys) > 0 THEN "migrate_task" ELSE "execute_commit"

\* lines 440-441
ExecuteBegin ==
    /\ pc = "execute_migration"
    /\ steps' = steps \cup {"execute_migration"}
    /\ \/ /\ NoFailure
          /\ tx' = get_db_connection(store)
          /\ idx' = 1
          /\ Continue(IF Len(phase_structure.recommended_phases) > 0
                      THEN "create_phase" ELSE AfterPhases)
          /\ UNCHANGED <<tables, committed>>
       \/ /\ StoreFailure("execute_migration")
          /\ ExecuteMigrationExcept
          /\ UNCHANGED idx
    /\ UNCHANGED <<all_tasks, phase_structure, implicit_dependencies,
                   migrated_count, fixed_count, store0, context0, planner>>

\* lines 444-445: one iteration
CreatePhase ==
    /\ pc = "create_phase"
    /\ steps' = steps \cup {"create_phase"}
    /\ \/ /\ NoFailure
          /\ tx' = create_phase(tx, phase_structure.recommended_phases[idx])
          /\ IF idx < Len(phase_structure.recommended_phases)
             THEN idx' = idx + 1 /\ Continue("create_phase")
             ELSE idx' = 1 /\ Continue(AfterPhases)
          /\ UNCHANGED <<tables, committed>>
       \/ /\ StoreFailure("create_phase")
          /\ ExecuteMigrationExcept
          /\ UNCHANGED idx
    /\ UNCHANGED <<all_tasks, phase_structure, implicit_dependencies,
                   migrated_count, fixed_count, store0, context0, planner>>

\* lines 449-451: one iteration; _migrate_task_to_phase catches what is
\* raised in it (lines 580-582) and returns False
MigrateTask ==
    /\ pc = "migrate_task"
    /\ steps' = steps \cup {"migrate_task"}
    /\ LET task_id == phase_structure.phase_assignments.keys[idx]
           phase_id == phase_structure.phase_assignments.val[task_id]
           done == migrate_task_to_phase(tx, task_id, phase_id, phase_structure)
       IN  \/ /\ tx' = done.table
              /\ migrated_count' = migrated_count + (IF done.migrated THEN 1 ELSE 0)
              /\ raised' = raised \cup (IF done.raised THEN {"migrate_task"} ELSE {})
              /\ UNCHANGED deviations
           \/ /\ StoreFailure("migrate_task")
              /\ UNCHANGED <<tx, migrated_count>>
    /\ IF idx < Len(phase_structure.phase_assignments.keys)
       THEN idx' = idx + 1 /\ Continue("migrate_task")
       ELSE idx' = idx /\ Continue("execute_commit")
    /\ UNCHANGED <<tables, all_tasks, phase_structure, implicit_dependencies,
                   fixed_count, store0, context0, committed, planner>>

\* lines 453-457
ExecuteCommit ==
    /\ pc = "execute_commit"
    /\ steps' = steps \cup {"execute_commit"}
    /\ \/ /\ NoFailure
          /\ store' = tx
          /\ committed' = tx
          /\ tx' = <<>>
          /\ Continue("fix_dependencies")
          /\ UNCHANGED project_context
       \/ /\ StoreFailure("execute_commit")
          /\ ExecuteMigrationExcept
    /\ UNCHANGED <<locals, store0, context0, planner>>

FixDependenciesExcept_fatal ==
    /\ tx' = <<>>
    /\ Return(FALSE)
    /\ UNCHANGED <<tables, committed>>

\* the except of _fix_dependencies (lines 626-627): the connection is
\* dropped uncommitted, the caller goes on
FixDependenciesExcept ==
    /\ tx' = <<>>
    /\ Continue("update_migration_status")
    /\ UNCHANGED <<tables, committed>>

\* lines 588-591
FixBegin ==
    /\ pc = "fix_dependencies"
    /\ steps' = steps \cup {"fix_dependencies"}
    /\ \/ /\ NoFailure
          /\ tx' = get_db_connection(store)
          /\ idx' = 1
          /\ fixed_count' = 0
          /\ Continue(IF Len(implicit_dependencies) > 0 THEN "fix_dependency" ELSE "fix_commit")
          /\ UNCHANGED <<tables, committed>>
       \/ /\ StoreFailure("fix_dependencies")
          /\ FixDependenciesExcept
          /\ UNCHANGED <<idx, fixed_count>>
    /\ UNCHANGED <<all_tasks, phase_structure, implicit_dependencies, migrated_count,
                   store0, context0, planner>>

\* lines 594-618: one iteration
FixDependency ==
    /\ pc = "fix_dependency"
    /\ steps' = steps \cup {"fix_dependency"}
    /\ LET done == fix_dependency(tx, implicit_dependencies[idx])
       IN  \/ /\ ~done.raised
              /\ NoFailure
              /\ tx' = done.table
              /\ fixed_count' = fixed_count + (IF done.fixed THEN 1 ELSE 0)
              /\ IF idx < Len(implicit_dependencies)
                 THEN idx' = idx + 1 /\ Continue("fix_dependency")
                 ELSE idx' = idx /\ Continue("fix_commit")
              /\ UNCHANGED <<tables, committed>>
           \/ /\ done.raised
              /\ raised' = raised \cup {"fix_dependency"}
              /\ FixDependenciesExcept
              /\ UNCHANGED <<deviations, idx, fixed_count>>
           \/ /\ StoreFailure("fix_dependency")
              /\ FixDependenciesExcept
              /\ UNCHANGED <<idx, fixed_count>>
    /\ UNCHANGED <<all_tasks, phase_structure, implicit_dependencies, migrated_count,
                   store0, context0, planner>>

\* lines 620-621
FixCommit ==
    /\ pc = "fix_commit"
    /\ steps' = steps \cup {"fix_commit"}
    /\ \/ /\ NoFailure
          /\ store' = tx
          /\ tx' = <<>>
          /\ Continue("update_migration_status")
          /\ UNCHANGED <<project_context, committed>>
       \/ /\ StoreFailure("fix_commit")
          /\ FixDependenciesExcept
    /\ UNCHANGED <<locals, store0, context0, planner>>

\* lines 379-391 with _update_migration_status, which catches what is raised
\* in it (lines 663-664)
UpdateMigrationStatus ==
    /\ pc = "update_migration_status"
    /\ steps' = steps \cup {"update_migration_status"}
    /\ \/ /\ NoFailure
          /\ project_context' =
                 insert_or_replace(project_context, migration_context_key,
                                   migration_record(Len(all_tasks), phase_structure))
       \/ /\ StoreFailure("update_migration_status")
          /\ UNCHANGED project_context
    /\ Return(TRUE)
    /\ UNCHANGED <<store, tx, locals, store0, context0, committed, planner>>

\* the entry point is called again (lines 667-673): a new manager
Restart ==
    /\ pc = "done"
    /\ Len(results) < MaxRuns
    /\ pc' = "needs_migration"
    /\ all_tasks' = <<>>
    /\ phase_structure' = EmptyStructure
    /\ implicit_dependencies' = <<>>
    /\ idx' = 0
    /\ migrated_count' = 0
    /\ fixed_count' = 0
    /\ store0' = store
    /\ context0' = project_context
    /\ steps' = {}
    /\ raised' = {}
    /\ committed' = <<>>
    /\ UNCHANGED <<tables, tx, results, deviations, run_stores, planner>>

Next ==
    \/ NeedsMigration
    \/ LoadAllTasks
    \/ Analyze
    \/ ExecuteBegin
    \/ CreatePhase
    \/ MigrateTask
    \/ ExecuteCommit
    \/ FixBegin
    \/ FixDependency
    \/ FixCommit
    \/ UpdateMigrationStatus
    \/ Restart

Spec == Init /\ [][Next]_vars

(***************************************************************************)
(* One run beside another writer of the tasks table, which deletes tasks   *)
(* the run has loaded.  The other writer commits while the run's           *)
(* connection holds no uncommitted write; the connection, if open, reads   *)
(* the table as it then is.                                                *)
(***************************************************************************)
OtherWriterDeletes ==
    /\ pc \in {"analyze", "execute_migration", "create_phase", "migrate_task",
               "execute_commit", "fix_dependencies", "fix_dependency", "fix_commit"}
    /\ tx = <<>> \/ tx = store
    /\ deviations < MaxDeviations
    /\ deviations' = deviations + 1
    /\ \E k \in 1..Len(store) :
          /\ \E a \in 1..Len(all_tasks) : all_tasks[a].task_id = store[k].task_id
          /\ store' = SelectSeq(store, LAMBDA row : row.task_id # store[k].task_id)
          /\ tx' = IF tx = <<>> THEN tx ELSE store'
    /\ UNCHANGED <<project_context, pc, locals, results, history, planner>>

WriterNext ==
    \/ NeedsMigration
    \/ LoadAllTasks
    \/ Analyze
    \/ ExecuteBegin
    \/ CreatePhase
    \/ MigrateTask
    \/ ExecuteCommit
    \/ FixBegin
    \/ FixDependency
    \/ FixCommit
    \/ UpdateMigrationStatus
    \/ OtherWriterDeletes

SpecWriter == Init /\ [][WriterNext]_vars

(***************************************************************************)
(* The planner taken alone: determine_optimal_phases applied to a layer    *)
(* partition.  The partition is any split of up to MaxPlanTasks tasks over *)
(* the six buckets; the tasks of a bucket are alike for the planner but    *)
(* for the unclassified ones, whose title and status it reads, so the      *)
(* tasks are drawn bucket by bucket.                                       *)
(***************************************************************************)
MaxPlanTasks == 6

PlanKinds ==
    << [layer |-> "infrastructure_tasks", title |-> "Setup", status |-> "pending"],
       [layer |-> "core_functionality_tasks", title |-> "Search", status |-> "pending"],
       [layer |-> "user_interface_tasks", title |-> "Login page", status |-> "pending"],
       [layer |-> "integration_tasks", title |-> "Api", status |-> "completed"],
       [layer |-> "optimization_tasks", title |-> "Testing", status |-> "pending"],
       [layer |-> "unclassified_tasks", title |-> "Write docs", status |-> "pending"],
       [layer |-> "unclassified_tasks", title |-> "Landing Page", status |-> "pending"],
       [layer |-> "unclassified_tasks", title |-> "Landing Page", status |-> "completed"] >>

\* the sequences of kinds of length n, in bucket order, that start at kind k or later
RECURSIVE KindSeqs(_, _)
KindSeqs(n, k) ==
    IF n = 0 THEN {<<>>}
    ELSE UNION {{<<j>> \o rest : rest \in KindSeqs(n - 1, j)} : j \in k..Len(PlanKinds)}

PlanTask(k, kind) ==
    [task_id |-> "p" \o ToString(k), title |-> PlanKinds[kind].title,
     description |-> "", status |-> PlanKinds[kind].status]

PartitionOf(kinds) ==
    [layer \in {LayerNames[i] : i \in 1..Len(LayerNames)} |->
        LET members == SelectSeq([k \in 1..Len(kinds) |-> k],
                                 LAMBDA k : PlanKinds[kinds[k]].layer = layer)
        IN  [m \in 1..Len(members) |-> PlanTask(members[m], kinds[members[m]])]]

RunOff ==
    /\ store = <<>>
    /\ project_context = <<>>
    /\ tx = <<>>
    /\ pc = "off"
    /\ all_tasks = <<>>
    /\ phase_structure = EmptyStructure
    /\ implicit_dependencies = <<>>
    /\ idx = 0
    /\ migrated_count = 0
    /\ fixed_count = 0
    /\ results = <<>>
    /\ deviations = 0
    /\ store0 = <<>>
    /\ context0 = <<>>
    /\ steps = {}
    /\ raised = {}
    /\ committed = <<>>
    /\ run_stores = <<>>

PlanInit ==
    /\ RunOff
    /\ \E n \in 0..MaxPlanTasks : \E kinds \in KindSeqs(n, 1) :
           complexity_analysis = PartitionOf(kinds)
    /\ plan = EmptyStructure
    /\ plan_pc = "input"
    /\ analysis_tasks = <<>>
    /\ dependency_analysis = EmptyDependencyAnalysis
    /\ domain_analysis = NoDomainAnalysis

DeterminePhases ==
    /\ plan_pc = "input"
    /\ plan' = determine_optimal_phases(complexity_analysis)
    /\ plan_pc' = "planned"
    /\ UNCHANGED <<tables, tx, pc, locals, results, deviations, history, complexity_analysis,
                   analysis_tasks, dependency_analysis, domain_analysis>>

PlanNext == DeterminePhases

SpecPlan == PlanInit /\ [][PlanNext]_vars

(***************************************************************************)
(* The analysis steps taken alone: analyze_task_complexity_layers and      *)
(* analyze_task_dependencies applied to a list of tasks.                   *)
(***************************************************************************)
MaxAnalysisTasks == 3

\* titles and descriptions with a hit in two keyword sets, a hit in the
\* description only, a hit across the join of title and description, a hit
\* inside a word, no hit; stored dependency fields of each kind
AnalysisKinds ==
    << [title |-> "Setup Login Page", description |-> "", status |-> "pending",
        depends_on_tasks |-> json_dumps(<<>>)],
       [title |-> "Search API", description |-> "", status |-> "completed",
        depends_on_tasks |-> JsonInvalid],
       [title |-> "API Component", description |-> "shared", status |-> "pending",
        depends_on_tasks |-> json_dumps(<< "a1" >>)],
       [title |-> "Workflow Integration", description |-> "", status |-> "pending",
        depends_on_tasks |-> JsonInvalid],
       [title |-> "Release", description |-> "Improve QUALITY", status |-> "pending",
        depends_on_tasks |-> SqlNull],
       [title |-> "User", description |-> "Experience report", status |-> "pending",
        depends_on_tasks |-> json_dumps(<<>>)],
       [title |-> "Notes", description |-> "", status |-> "pending",
        depends_on_tasks |-> json_dumps(<<>>)] >>

AnalysisTask(k, kind) ==
    [task_id |-> "a" \o ToString(k),
     title |-> AnalysisKinds[kind].title,
     description |-> AnalysisKinds[kind].description,
     status |-> AnalysisKinds[kind].status,
     depends_on_tasks |-> AnalysisKinds[kind].depends_on_tasks]

AnalysisInit ==
    /\ RunOff
    /\ \E n \in 0..MaxAnalysisTasks : \E kinds \in [1..n -> 1..Len(AnalysisKinds)] :
           analysis_tasks = [k \in 1..n |-> AnalysisTask(k, kinds[k])]
    /\ complexity_analysis = EmptyAnalysis
    /\ dependency_analysis = EmptyDependencyAnalysis
    /\ plan = EmptyStructure
    /\ domain_analysis = NoDomainAnalysis
    /\ plan_pc = "tasks"

\* step 1 (lines 341-342)
AnalyzeDomain ==
    /\ plan_pc = "tasks"
    /\ domain_analysis' = analyze_project_domain(analysis_tasks)
    /\ plan_pc' = "profiled"
    /\ UNCHANGED <<tables, tx, pc, locals, results, deviations, history, plan,
                   analysis_tasks, complexity_analysis, dependency_analysis>>

\* step 2 (lines 347-348)
AnalyzeLayers ==
    /\ plan_pc = "profiled"
    /\ complexity_analysis' = analyze_task_complexity_layers(analysis_tasks)
    /\ plan_pc' = "layered"
    /\ UNCHANGED <<tables, tx, pc, locals, results, deviations, history, plan,
                   analysis_tasks, dependency_analysis, domain_analysis>>

\* step 3 (lines 354-355)
AnalyzeDependencies ==
    /\ plan_pc = "layered"
    /\ dependency_analysis' = analyze_task_dependencies(analysis_tasks)
    /\ plan_pc' = "analyzed"
    /\ UNCHANGED <<tables, tx, pc, locals, results, deviations, history, plan,
                   analysis_tasks, complexity_analysis, domain_analysis>>

AnalysisNext == AnalyzeDomain \/ AnalyzeLayers \/ AnalyzeDependencies

SpecAnalysis == AnalysisInit /\ [][AnalysisNext]_vars

\* the tasks of the partition, bucket by bucket
PlanInputTasks ==
    complexity_analysis.infrastructure_tasks \o complexity_analysis.core_functionality_tasks
        \o complexity_analysis.user_interface_tasks \o complexity_analysis.integration_tasks
        \o complexity_analysis.optimization_tasks \o complexity_analysis.unclassified_tasks

RecommendedIds(structure) ==
    {structure.recommended_phases[k].phase_id : k \in 1..Len(structure.recommended_phases)}

(***************************************************************************)
(* Claims.                                                                 *)
(***************************************************************************)

\* C2: after determine_optimal_phases, the phase-assignment mapping has
\* exactly one entry for each input task id (and none for another id), and
\* the phase id of every entry is the id of a phase in recommended_phases.
C2_Completeness ==
    plan_pc = "planned" =>
        /\ \A k \in 1..Len(PlanInputTasks) :
              Cardinality({m \in 1..Len(plan.phase_assignments.keys) :
                  plan.phase_assignments.keys[m] = PlanInputTasks[k].task_id}) = 1
        /\ \A m \in 1..Len(plan.phase_assignments.keys) :
              /\ \E k \in 1..Len(PlanInputTasks) :
                    PlanInputTasks[k].task_id = plan.phase_assignments.keys[m]
              /\ plan.phase_assignments.val[plan.phase_assignments.keys[m]]
                    \in RecommendedIds(plan)

\* ---- helpers of the claims about a run ----
LastResult == results[Len(results)]

\* the step was entered in this run and did not raise
Succeeded(step) == step \in steps /\ step \notin raised

StartsWith(text, prefix) ==
    Len(text) >= Len(prefix) /\ SubSeq(text, 1, Len(prefix)) = prefix

\* parent, dependency list and note list of every row
TaskRecords(table) ==
    [k \in 1..Len(table) |->
        [task_id |-> table[k].task_id, parent_task |-> table[k].parent_task,
         depends_on_tasks |-> table[k].depends_on_tasks, notes |-> table[k].notes]]

\* the spec's executor steps, as sets of the model's steps
PersistingPhases == {"execute_migration", "create_phase"}
ReparentingTasks == {"migrate_task", "execute_commit"}
ApplyingDependencies == {"fix_dependencies", "fix_dependency", "fix_commit"}
RecordingAudit == {"update_migration_status"}

\* the task MigrateTask is at, and its phase
CurrentTaskId == phase_structure.phase_assignments.keys[idx]
CurrentPhaseId == phase_structure.phase_assignments.val[CurrentTaskId]

\* MigrateTask reparents the task it is at in this step
Reparents == pc = "migrate_task" /\ tx' # tx

\* C1 (stated for runs with no store failure and no malformed field): when
\* run_migration is called twice in succession and the first call returned
\* true, the second call returns true and leaves parent, dependency list and
\* note list of every task as the first call left them.
C1_Idempotent ==
    (Len(results) = 2 /\ deviations = 0 /\ results[1] = TRUE) =>
        /\ results[2] = TRUE
        /\ TaskRecords(run_stores[2]) = TaskRecords(run_stores[1])

\* C3: a task reparented with phase p gets parent p when it had no parent,
\* keeps its parent when the mapping assigns that parent to p, and gets
\* parent p when its parent is assigned to another phase or has no entry.
C3_ReparentingRule ==
    [][Reparents =>
        LET assignments == phase_structure.phase_assignments
            before == FetchOne(tx, CurrentTaskId).parent_task
            after == FetchOne(tx', CurrentTaskId).parent_task
        IN  /\ (before = None) => (after = CurrentPhaseId)
            /\ (before # None /\ before \in DOMAIN assignments.val
                    /\ assignments.val[before] = CurrentPhaseId) => (after = before)
            /\ (before # None /\ before \in DOMAIN assignments.val
                    /\ assignments.val[before] # CurrentPhaseId) => (after = CurrentPhaseId)
            /\ (before # None /\ before \notin DOMAIN assignments.val) => (after = CurrentPhaseId)
    ]_vars

\* a task whose parent is assigned to another phase has been moved under its
\* own phase, and the write is committed
C3_Witness ==
    /\ Succeeded("execute_commit")
    /\ \E k \in 1..Len(store0) :
          LET was == store0[k].parent_task
              assignments == phase_structure.phase_assignments
          IN  /\ was # None
              /\ was \in DOMAIN assignments.val
              /\ assignments.val[was] # assignments.val[store0[k].task_id]
              /\ FetchOne(store, store0[k].task_id).parent_task
                     = assignments.val[store0[k].task_id]

\* C4: each reparenting of a task keeps its notes as a prefix of the new
\* note list, which is longer by exactly one.
C4_NotesAppendOnly ==
    [][Reparents =>
        LET before == FetchOne(tx, CurrentTaskId).notes
            after == FetchOne(tx', CurrentTaskId).notes
        IN  /\ before.enc = "array" /\ after.enc = "array"
            /\ Len(after.val) = Len(before.val) + 1
            /\ SubSeq(after.val, 1, Len(before.val)) = before.val
    ]_vars

\* a task that keeps its parent (hierarchy preserved) and had a note before
\* has that note and the migration note after it
C4_Witness ==
    /\ Succeeded("execute_commit")
    /\ \E k \in 1..Len(store0) :
          /\ store0[k].parent_task # None
          /\ store[k].parent_task = store0[k].parent_task
          /\ Len(store0[k].notes.val) > 0
          /\ Len(store[k].notes.val) = Len(store0[k].notes.val) + 1
          /\ Contains(store[k].notes.val[Len(store[k].notes.val)].content,
                      "hierarchy_preserved")

\* C5 (stated for runs that have a phase to create): if an exception occurs
\* while a phase record is created or while one task is reparented,
\* run_migration returns false.
C5_PersistFailuresFatal ==
    (/\ pc = "done"
     /\ Len(phase_structure.recommended_phases) > 0
     /\ raised \cap {"create_phase", "migrate_task"} # {}) =>
        LastResult = FALSE

\* C6 (stated for a store that has tasks and no phase-like record): if a
\* store read fails in _needs_migration or in _load_all_tasks, run_migration
\* returns false; it returns true only when the migration ran or was found
\* not to be needed.
C6_ReadFailuresReported ==
    (pc = "done" /\ needs_migration(store0)) =>
        /\ (raised \cap {"needs_migration", "load_all_tasks"} # {}) => (LastResult = FALSE)
        /\ (LastResult = TRUE) =>
              \/ Succeeded("execute_commit")
              \/ Succeeded("needs_migration") /\ ~needs_migration(store0)

\* C7: once phase creation and reparenting are committed, the run returns
\* true whatever the dependency-fixing step raises, and the committed phase
\* records and parents (and notes) stay in the store.
C7_DependencyFailuresNotFatal ==
    Succeeded("execute_commit") =>
        /\ (pc = "done") => (LastResult = TRUE)
        /\ Len(store) = Len(committed)
        /\ \A k \in 1..Len(committed) :
              [store[k] EXCEPT !.depends_on_tasks = committed[k].depends_on_tasks]
                  = committed[k]

\* the dependency-fixing step raised after the commit, a phase record is in
\* the store, and the run returned true
C7_Witness ==
    /\ pc = "done"
    /\ Succeeded("execute_commit")
    /\ raised \cap ApplyingDependencies # {}
    /\ \E k \in 1..Len(store) : StartsWith(store[k].task_id, "phase_")
    /\ LastResult = TRUE

\* C8 (stated for runs that have a phase to create): an exception
\* in PERSISTING_PHASES, REPARENTING_TASKS, APPLYING_INFERRED_DEPENDENCIES or
\* RECORDING_AUDIT means no later step is executed and the run reports
\* failure.
C8_AbortOnException ==
    (pc = "done" /\ Len(phase_structure.recommended_phases) > 0) =>
        /\ (raised \cap (PersistingPhases \cup ReparentingTasks
                            \cup ApplyingDependencies \cup RecordingAudit) # {})
               => (LastResult = FALSE)
        /\ (raised \cap PersistingPhases # {})
               => (steps \cap (ReparentingTasks \cup ApplyingDependencies \cup RecordingAudit) = {})
        /\ (raised \cap ReparentingTasks # {})
               => (steps \cap (ApplyingDependencies \cup RecordingAudit) = {})
        /\ (raised \cap ApplyingDependencies # {})
               => (steps \cap RecordingAudit = {})

\* the store holds a record whose id begins with the phase prefix, or no task
NotNeededGuard(table) ==
    \/ \E k \in 1..Len(table) : StartsWith(table[k].task_id, "phase_")
    \/ Len(table) = 0

\* C9: if at the needed-check the store holds a phase-shaped record or no
\* task, the run returns true and writes nothing: no phase inserted, no
\* parent, dependency list or note list changed, no audit record written.
C9_NotNeededNoWrite ==
    NotNeededGuard(store0) =>
        /\ store = store0
        /\ project_context = context0
        /\ tx = <<>>
        /\ steps \subseteq {"needs_migration"}
        /\ (pc = "done") => (LastResult = TRUE)

\* the second run, stopped by the phase records of the first run (which wrote
\* its audit record)
C9_Witness ==
    /\ pc = "done"
    /\ Len(results) = 2
    /\ Len(store0) > 0
    /\ NotNeededGuard(store0)
    /\ Len(project_context) = 1

\* C10: the phase inserts and the reparent updates of a run become visible
\* in the store together, in one commit (nothing of them is visible when the
\* run fails before it); an inferred-dependency update becomes visible only
\* in a second commit after that one.
C10_CommitDiscipline ==
    /\ ~Succeeded("execute_commit") => (store = store0)
    /\ (Succeeded("execute_commit") /\ ~Succeeded("fix_commit")) => (store = committed)
    /\ Succeeded("fix_commit") =>
          /\ Succeeded("execute_commit")
          /\ Len(store) = Len(committed)
          /\ \A k \in 1..Len(committed) :
                [store[k] EXCEPT !.depends_on_tasks = committed[k].depends_on_tasks]
                    = committed[k]
    /\ Succeeded("execute_commit") =>
          /\ \A p \in RecommendedIds(phase_structure) : HasRow(committed, p)
          /\ \A k \in 1..Len(store0) :
                committed[k].depends_on_tasks = store0[k].depends_on_tasks

\* both commits happened: phases and new parents came with the first, an
\* inferred dependency with the second
C10_Witness ==
    /\ Succeeded("fix_commit")
    /\ Len(committed) > Len(store0)
    /\ \E k \in 1..Len(store0) : committed[k].parent_task # store0[k].parent_task
    /\ \E k \in 1..Len(committed) : store[k].depends_on_tasks # committed[k].depends_on_tasks


\* ---- helpers of the claims about the planner ----
AssignedPhase(task) == DictGet(plan.phase_assignments, task.task_id)

Recommends(phase_id) == phase_id \in RecommendedIds(plan)

\* the 'tasks' of the entry of recommended_phases with that id
PhaseTasks(phase_id) ==
    LET k == CHOOSE m \in 1..Len(plan.recommended_phases) :
                 plan.recommended_phases[m].phase_id = phase_id
    IN  plan.recommended_phases[k].tasks

\* the title has one of the words page, ui, interface, component
UiTitled(task) ==
    \/ Contains(lower(task.title), "page")
    \/ Contains(lower(task.title), "ui")
    \/ Contains(lower(task.title), "interface")
    \/ Contains(lower(task.title), "component")

RedistributedToFoundation(task) == task.status = "completed" \/ ~UiTitled(task)

RedistributedToCoordination(task) == task.status # "completed" /\ UiTitled(task)

\* user_interface plus integration plus the redistributed unclassified tasks
CoordinationSet ==
    (complexity_analysis.user_interface_tasks \o complexity_analysis.integration_tasks)
        \o SelectSeq(complexity_analysis.unclassified_tasks, RedistributedToCoordination)

\* C11: phase_2_intelligence is recommended exactly when the
\* core_functionality bucket has at least 3 tasks; when it is, its task list
\* is the core_functionality tasks and each of them is mapped to it; when it
\* is not, every core_functionality task is mapped to phase_1_foundation.
C11_IntelligenceThreshold ==
    plan_pc = "planned" =>
        LET core == complexity_analysis.core_functionality_tasks
        IN  /\ Recommends("phase_2_intelligence") <=> (Len(core) >= 3)
            /\ Recommends("phase_2_intelligence") =>
                  /\ PhaseTasks("phase_2_intelligence") = TaskIdsOf(core)
                  /\ \A k \in 1..Len(core) : AssignedPhase(core[k]) = "phase_2_intelligence"
            /\ ~Recommends("phase_2_intelligence") =>
                  \A k \in 1..Len(core) : AssignedPhase(core[k]) = "phase_1_foundation"

\* exactly 3 core_functionality tasks, all three in the Intelligence phase
C11_Witness ==
    /\ plan_pc = "planned"
    /\ Len(complexity_analysis.core_functionality_tasks) = 3
    /\ Len(PlanInputTasks) = 3
    /\ Recommends("phase_2_intelligence")
    /\ Len(PhaseTasks("phase_2_intelligence")) = 3

\* C12: phase_3_coordination is recommended exactly when the coordination
\* set has at least 5 tasks; otherwise every task of the set is mapped to
\* phase_2_intelligence if that phase is recommended and to
\* phase_1_foundation if it is not.
C12_CoordinationFallback ==
    plan_pc = "planned" =>
        /\ Recommends("phase_3_coordination") <=> (Len(CoordinationSet) >= 5)
        /\ ~Recommends("phase_3_coordination") =>
              \A k \in 1..Len(CoordinationSet) :
                  AssignedPhase(CoordinationSet[k]) =
                      IF Recommends("phase_2_intelligence")
                      THEN "phase_2_intelligence"
                      ELSE "phase_1_foundation"

KeywordSets ==
    << infrastructure_keywords, core_functionality_keywords, user_interface_keywords,
       integration_keywords, optimization_keywords >>

\* lowercased title and description, joined as task_text does
TaskText(task) == lower(task.title \o " " \o task.description)

\* the buckets, in order, whose keyword set has a hit in the task's text
Hits(task) == {b \in 1..Len(KeywordSets) : AnyKeyword(TaskText(task), KeywordSets[b])}

FirstHit(task) ==
    IF Hits(task) = {} THEN Len(LayerNames)
    ELSE CHOOSE b \in Hits(task) : \A c \in Hits(task) : b <= c

\* how many times the task id is in the bucket
Occurrences(task_id, bucket) ==
    Cardinality({k \in 1..Len(bucket) : bucket[k].task_id = task_id})

\* C15: analyze_task_complexity_layers puts every task in exactly one
\* bucket: the first, in the order infrastructure, core_functionality,
\* user_interface, integration, optimization, whose keyword set has a hit in
\* the lowercased title and description, and unclassified exactly when none
\* has a hit.
C15_FirstMatch ==
    plan_pc \in {"layered", "analyzed"} =>
        \A k \in 1..Len(analysis_tasks) : \A b \in 1..Len(LayerNames) :
            Occurrences(analysis_tasks[k].task_id, complexity_analysis[LayerNames[b]])
                = IF b = FirstHit(analysis_tasks[k]) THEN 1 ELSE 0

\* a task with an infrastructure and a user_interface keyword is in the
\* infrastructure bucket, beside a task without any hit
C15_Witness ==
    /\ plan_pc = "layered"
    /\ \E k \in 1..Len(analysis_tasks) :
          /\ {1, 3} \subseteq Hits(analysis_tasks[k])
          /\ Occurrences(analysis_tasks[k].task_id, complexity_analysis.infrastructure_tasks) = 1
    /\ Len(complexity_analysis.unclassified_tasks) > 0

InferredEdge(dependent, dependency) ==
    \E e \in 1..Len(dependency_analysis.implicit_dependencies) :
        /\ dependency_analysis.implicit_dependencies[e].dependent = dependent
        /\ dependency_analysis.implicit_dependencies[e].dependency = dependency

\* some pair of the pattern table has its first keyword in a's lowercased
\* title and its second in b's
PatternHit(a, b) ==
    \E p \in 1..Len(dependency_patterns) :
        /\ Contains(lower(a.title), dependency_patterns[p][1])
        /\ Contains(lower(b.title), dependency_patterns[p][2])

C19_ImplicitInference ==
    plan_pc = "analyzed" =>
        /\ \A i \in 1..Len(analysis_tasks), j \in 1..Len(analysis_tasks) :
              InferredEdge(analysis_tasks[i].task_id, analysis_tasks[j].task_id)
                  <=> (analysis_tasks[i].task_id # analysis_tasks[j].task_id
                          /\ PatternHit(analysis_tasks[i], analysis_tasks[j]))
        /\ \A e \in 1..Len(dependency_analysis.implicit_dependencies) :
              /\ dependency_analysis.implicit_dependencies[e].dependent
                    # dependency_analysis.implicit_dependencies[e].dependency
              /\ \E i \in 1..Len(analysis_tasks) :
                    analysis_tasks[i].task_id
                        = dependency_analysis.implicit_dependencies[e].dependent
              /\ \E j \in 1..Len(analysis_tasks) :
                    analysis_tasks[j].task_id
                        = dependency_analysis.implicit_dependencies[e].dependency

\* two tasks whose titles each match a pattern against the other and
\* against themselves: an edge each way and none to itself
C19_Witness ==
    /\ plan_pc = "analyzed"
    /\ \E i \in 1..Len(analysis_tasks), j \in 1..Len(analysis_tasks) :
          /\ i # j
          /\ PatternHit(analysis_tasks[i], analysis_tasks[i])
          /\ InferredEdge(analysis_tasks[i].task_id, analysis_tasks[j].task_id)
          /\ InferredEdge(analysis_tasks[j].task_id, analysis_tasks[i].task_id)
          /\ ~InferredEdge(analysis_tasks[i].task_id, analysis_tasks[i].task_id)


\* ---- helpers of the claims about the dependency-fixing step ----
\* the dependency list a stored field stands for
DepList(column) == IF column.enc = "array" THEN column.val ELSE <<>>

\* the dependencies the inferred edges give the task
InferredFor(task_id) ==
    {implicit_dependencies[e].dependency :
        e \in {d \in 1..Len(implicit_dependencies) :
                  implicit_dependencies[d].dependent = task_id}}

\* the dependency-fixing step of this run has committed
FixCompleted == "fix_commit" \in steps /\ "fix_commit" \notin raised

\* C16: where the dependency-fixing step reads a stored dependency field,
\* a value that does not parse is treated as an empty list: unless a store
\* operation fails, an iteration of the step does not raise, and the step
\* goes on to the next edge or to its commit.
C16_MalformedNeverPropagated ==
    [][(pc = "fix_dependency" /\ deviations' = deviations) =>
          /\ "fix_dependency" \notin raised'
          /\ pc' \in {"fix_dependency", "fix_commit"}]_vars

\* C20: once the dependency-fixing step has committed, the stored list of
\* every task begins with its previous list in the same order, followed by
\* the dependencies the inferred edges give it that were not in it, each
\* once; so it holds the dependency of every inferred edge of the task.
C20_AdditiveNoDuplicates ==
    (FixCompleted /\ pc \in {"update_migration_status", "done"}) =>
        \A k \in 1..Len(store) :
            LET before == DepList(committed[k].depends_on_tasks)
                after == DepList(store[k].depends_on_tasks)
                added == SubSeq(after, Len(before) + 1, Len(after))
                missing == InferredFor(store[k].task_id) \ {before[m] : m \in 1..Len(before)}
            IN  /\ store[k].task_id = committed[k].task_id
                /\ Len(after) >= Len(before)
                /\ SubSeq(after, 1, Len(before)) = before
                /\ {added[m] : m \in 1..Len(added)} = missing
                /\ Len(added) = Cardinality(missing)
                /\ \A b \in InferredFor(store[k].task_id) :
                      \E m \in 1..Len(after) : after[m] = b

\* an inferred dependency was appended behind a dependency stored before
C20_Witness ==
    /\ FixCompleted
    /\ pc = "done"
    /\ \E k \in 1..Len(store) :
          /\ Len(DepList(committed[k].depends_on_tasks)) = 1
          /\ Len(DepList(store[k].depends_on_tasks)) = 2
          /\ store[k].depends_on_tasks.val[1] = committed[k].depends_on_tasks.val[1]
          /\ store[k].depends_on_tasks.val[2] \in InferredFor(store[k].task_id)


\* ---- helpers of the claim about tasks another writer removed ----
\* the tasks the run loaded that are no longer in the store
Gone ==
    {all_tasks[a].task_id : a \in 1..Len(all_tasks)} \ {store[k].task_id : k \in 1..Len(store)}

\* the edge the dependency-fixing step is at
CurrentEdge == implicit_dependencies[idx]

\* C18: a task of the analysis that is no longer in the store when its
\* reparenting or its inferred-dependency update is attempted is skipped
\* without error (nothing is written or counted for it, the loop goes on to
\* the next task or edge); the tasks and edges that remain are processed and
\* the run returns true.
C18_MissingSkipped ==
    /\ [][(pc = "migrate_task" /\ ~HasRow(tx, CurrentTaskId) /\ deviations' = deviations) =>
             /\ raised' = raised
             /\ tx' = tx
             /\ migrated_count' = migrated_count
             /\ pc' \in {"migrate_task", "execute_commit"}]_vars
    /\ [][(pc = "fix_dependency" /\ ~HasRow(tx, CurrentEdge.dependent)
              /\ deviations' = deviations) =>
             /\ raised' = raised
             /\ tx' = tx
             /\ fixed_count' = fixed_count
             /\ pc' \in {"fix_dependency", "fix_commit"}]_vars
    /\ [](( pc = "done" /\ Gone # {} /\ raised = {}
              /\ Len(phase_structure.phase_assignments.keys) > 0) =>
            /\ LastResult = TRUE
            /\ \A a \in 1..Len(all_tasks) :
                  HasRow(store, all_tasks[a].task_id) =>
                      Len(FetchOne(store, all_tasks[a].task_id).notes.val)
                          = Len(all_tasks[a].notes.val) + 1
            /\ \A e \in 1..Len(implicit_dependencies) :
                  HasRow(store, implicit_dependencies[e].dependent) =>
                      InList(implicit_dependencies[e].dependency,
                             DepList(FetchOne(store, implicit_dependencies[e].dependent)
                                        .depends_on_tasks)))

\* a loaded task was gone at its reparenting and was not counted, the other
\* tasks were reparented and the run returned true
C18_Witness ==
    /\ pc = "done"
    /\ Gone # {}
    /\ raised = {}
    /\ Len(store) > 0
    /\ migrated_count = Len(all_tasks) - 1
    /\ migrated_count > 0
    /\ LastResult = TRUE


\* C24 (stated for the structures in which every assigned phase is a
\* recommended one): a task is in the task list of recommended phase p
\* exactly when the phase-assignment mapping maps its id to p, so the lists
\* are disjoint and together hold every input task.
C24_ListsAgreeWithMapping ==
    (/\ plan_pc = "planned"
     /\ \A t \in 1..Len(PlanInputTasks) : Recommends(AssignedPhase(PlanInputTasks[t]))) =>
        \A t \in 1..Len(PlanInputTasks) : \A k \in 1..Len(plan.recommended_phases) :
            (\E m \in 1..Len(plan.recommended_phases[k].tasks) :
                plan.recommended_phases[k].tasks[m] = PlanInputTasks[t].task_id)
            <=> (AssignedPhase(PlanInputTasks[t]) = plan.recommended_phases[k].phase_id)


PhaseRows(table) == {k \in 1..Len(table) : StartsWith(table[k].task_id, "phase_")}

\* C21: neither the committed table nor the connection's view ever holds two
\* records under one phase id, over any sequence of runs; an iteration of
\* phase creation that does not raise keeps every record it found, inserts
\* only records with status pending, priority high, no parent and an empty
\* dependency list under the id of the phase at hand, and creating that
\* phase again on the table it left changes nothing.
C21_PhaseCreatedOnce ==
    /\ [](\A table \in {store, tx} : \A j, k \in PhaseRows(table) :
              table[j].task_id = table[k].task_id => j = k)
    /\ [][(pc = "create_phase" /\ deviations' = deviations) =>
             LET phase_info == phase_structure.recommended_phases[idx]
             IN  /\ Len(tx') >= Len(tx)
                 /\ SubSeq(tx', 1, Len(tx)) = tx
                 /\ \A k \in (Len(tx) + 1)..Len(tx') :
                        /\ tx'[k].task_id = phase_info.phase_id
                        /\ tx'[k].status = "pending"
                        /\ tx'[k].priority = "high"
                        /\ tx'[k].parent_task = None
                        /\ tx'[k].depends_on_tasks = json_dumps(<<>>)
                 /\ create_phase(tx', phase_info) = tx']_vars

\* a run failed, the next one created a phase and committed it
C21_Witness ==
    /\ pc = "done"
    /\ Len(results) = 2
    /\ results[1] = FALSE
    /\ results[2] = TRUE
    /\ PhaseRows(store) # {}
    /\ PhaseRows(store0) = {}


\* the table keeps every row the run started from, in place, with its title,
\* description, status and child list, and every further row is the record
\* of a recommended phase
Frame(table) ==
    /\ Len(table) >= Len(store0)
    /\ \A k \in 1..Len(store0) :
          /\ table[k].task_id = store0[k].task_id
          /\ table[k].title = store0[k].title
          /\ table[k].description = store0[k].description
          /\ table[k].status = store0[k].status
          /\ table[k].child_tasks = store0[k].child_tasks
    /\ \A k \in (Len(store0) + 1)..Len(table) :
          \E j \in 1..Len(phase_structure.recommended_phases) :
              table[k].task_id = phase_structure.recommended_phases[j].phase_id

\* C22: at every point of a run, in the committed table and in the
\* connection's view, every task that existed before the run is still there
\* with its title, description, status and child list (so a run changes at
\* most parent reference, dependency list and notes), and the only records
\* added are phase records.
C22_Frame ==
    /\ Frame(store)
    /\ tx # <<>> => Frame(tx)

\* a run reparented a task, extended a dependency list and inserted a phase
C22_Witness ==
    /\ pc = "done"
    /\ LastResult = TRUE
    /\ Len(store) > Len(store0)
    /\ \E k \in 1..Len(store0) : store[k].parent_task # store0[k].parent_task
    /\ \E k \in 1..Len(store0) : store[k].depends_on_tasks # store0[k].depends_on_tasks
    /\ \E k \in 1..Len(store0) : store0[k].status = "completed"


\* C23 (stated for runs in which no store call raises and every field is
\* well-formed): after a run that committed the migration and returned
\* true, the parent reference of every task loaded for the analysis is the
\* id of a record of the store.
C23_ParentsResolvable ==
    (/\ pc = "done"
     /\ LastResult = TRUE
     /\ Succeeded("execute_commit")
     /\ deviations = 0) =>
        \A k \in 1..Len(all_tasks) :
            /\ HasRow(store, all_tasks[k].task_id)
            /\ HasRow(store, store[CHOOSE r \in RowIndexes(store, all_tasks[k].task_id) : TRUE].parent_task)


AuditRecords(context) ==
    {k \in 1..Len(context) : context[k].context_key = migration_context_key}

\* C25: the audit record is written or changed only by the audit step of a
\* run whose phase-creation and reparenting commit has succeeded; a run that
\* returned false, or that the needed-check stopped, has left the audit
\* table as it found it; and the table never holds more than one audit
\* record, over any number of runs.
C25_AuditOrdering ==
    /\ [][("update_migration_status" \in steps' \/ project_context' # project_context) =>
             /\ pc = "update_migration_status"
             /\ Succeeded("execute_commit")]_vars
    /\ []((pc = "done" /\ (LastResult = FALSE \/ NotNeededGuard(store0))) =>
             project_context = context0)
    /\ [](Cardinality(AuditRecords(project_context)) <= 1)

\* two runs in a row each reached the audit step and wrote the record
C25_Witness ==
    /\ pc = "done"
    /\ Len(results) = 2
    /\ Succeeded("update_migration_status")
    /\ Cardinality(AuditRecords(context0)) = 1
    /\ Cardinality(AuditRecords(project_context)) = 1


\* the position of a domain in the table
DomainIndex(domain) ==
    CHOOSE i \in 1..Len(domain_indicators) : domain_indicators[i].domain = domain

\* for each domain of the table, the number of its keywords found in the
\* lowercased text of all tasks
KeywordCounts ==
    LET text == combined_text(analysis_tasks)
    IN  [i \in 1..Len(domain_indicators) |->
            Cardinality({k \in 1..Len(domain_indicators[i].keywords) :
                            Contains(text, domain_indicators[i].keywords[k])})]

\* C26: the profile scores each domain by the number of its keywords that
\* occur in the combined lowercased title and description text of all tasks,
\* and its primary domain is the one with the highest score, the earliest in
\* the table order among equals (web_development when every score is zero).
C26_PrimaryDomain ==
    plan_pc = "profiled" =>
        LET primary == DomainIndex(domain_analysis.primary_domain)
            counts == KeywordCounts
        IN  /\ \A i \in 1..Len(domain_indicators) :
                   domain_analysis.domain_scores.val[domain_indicators[i].domain] = counts[i]
            /\ \A i \in 1..Len(domain_indicators) : counts[i] <= counts[primary]
            /\ \A i \in 1..(primary - 1) : counts[i] < counts[primary]
            /\ (\A i \in 1..Len(domain_indicators) : counts[i] = 0) =>
                   domain_analysis.primary_domain = "web_development"

\* two later domains share the highest score, the earlier of them is primary
C26_Witness ==
    /\ plan_pc = "profiled"
    /\ domain_analysis.primary_domain = "backend_development"
    /\ \E i \in 1..Len(domain_indicators) :
          /\ i > DomainIndex("backend_development")
          /\ KeywordCounts[i] = KeywordCounts[DomainIndex("backend_development")]
          /\ KeywordCounts[i] > 0

=============================================================================
